---- MODULE Spec2Model ----
(***************************************************************************)
(* Portfolio tracker: the HTTP route handlers of server/routes.ts and the  *)
(* stock-creation dialog of client/.../add-stock-modal.tsx.                *)
(*                                                                         *)
(* JavaScript strings are sequences of one-character strings, so that      *)
(* length checks, toUpperCase and parseInt are computed and not assumed.   *)
(* A JSON value of a request body is a tagged record (Str, Num, Undef), so *)
(* that the schema's type checks are computed as well.                     *)
(***************************************************************************)
EXTENDS Integers, Sequences, FiniteSets, TLC

VARIABLES
    stocks,         \* storage: the stock records, in insertion order
    currentStockId, \* storage: the next identifier createStock assigns
    portfolios,     \* storage: userId -> <<>> or <<portfolio>>
    transactions,   \* storage: userId -> sequence of transactions
    req,            \* server: the request handled last
    sent,           \* server: the responses written for that request, in order
    calls,          \* server: the storage calls made for that request, in order
    created,        \* server: the records answered with 201 so far, in order
    open,           \* dialog: useState(false)
    form,           \* dialog: the values of the react-hook-form fields
    mutation,       \* dialog: the state of createStockMutation
    inflight,       \* dialog: the POST requests sent and not yet answered
    stale,          \* query cache: the "/api/stocks" entry is invalidated
    toast,          \* the title of the notification shown last
    response,       \* dialog: <<>> or the status apiRequest got last (0: no answer)
    isSubmitted     \* dialog: formState.isSubmitted, handleSubmit ran since the last reset

serverVars == <<stocks, currentStockId, portfolios, transactions, req, sent, calls, created>>
clientVars == <<open, form, mutation, inflight, stale, toast, response, isSubmitted>>
vars == <<stocks, currentStockId, portfolios, transactions, req, sent, calls, created,
          open, form, mutation, inflight, stale, toast, response, isSubmitted>>

\* ------------------------------------------------------------------------
\* Bounds
\* ------------------------------------------------------------------------
MaxStocks == 2

\* ------------------------------------------------------------------------
\* JavaScript values
\* ------------------------------------------------------------------------
Str(s) == [kind |-> "string", s |-> s, n |-> 0]
Num(n) == [kind |-> "number", s |-> <<>>, n |-> n]
Undef == [kind |-> "undefined", s |-> <<>>, n |-> 0]

Digits == {"0", "1", "2", "3", "4", "5", "6", "7", "8", "9"}

DigitVal(c) ==
    CASE c = "0" -> 0 [] c = "1" -> 1 [] c = "2" -> 2 [] c = "3" -> 3 [] c = "4" -> 4
      [] c = "5" -> 5 [] c = "6" -> 6 [] c = "7" -> 7 [] c = "8" -> 8 [] c = "9" -> 9

\* The longest prefix of s made of digits.
RECURSIVE DigitPrefix(_)
DigitPrefix(s) ==
    IF s = <<>> \/ Head(s) \notin Digits THEN <<>>
    ELSE <<Head(s)>> \o DigitPrefix(Tail(s))

RECURSIVE DigitsValue(_, _)
DigitsValue(s, acc) ==
    IF s = <<>> THEN acc ELSE DigitsValue(Tail(s), acc * 10 + DigitVal(Head(s)))

RECURSIVE SkipSpaces(_)
SkipSpaces(s) == IF s # <<>> /\ Head(s) = " " THEN SkipSpaces(Tail(s)) ELSE s

\* parseInt(text): leading blanks, an optional sign, then the digits up to the
\* first character that is none; NaN when there is no digit.
ParseInt(text) ==
    LET t == SkipSpaces(text)
        neg == t # <<>> /\ Head(t) = "-"
        signed == t # <<>> /\ Head(t) \in {"-", "+"}
        ds == DigitPrefix(IF signed THEN Tail(t) ELSE t)
    IN  IF ds = <<>> THEN [nan |-> TRUE, n |-> 0]
        ELSE [nan |-> FALSE, n |-> IF neg THEN 0 - DigitsValue(ds, 0) ELSE DigitsValue(ds, 0)]

UpperOf(c) ==
    CASE c = "a" -> "A" [] c = "g" -> "G" [] c = "l" -> "L" [] c = "o" -> "O"
      [] c = "p" -> "P" [] c = "e" -> "E" [] OTHER -> c

\* String.prototype.toUpperCase
ToUpperCase(s) == [i \in 1..Len(s) |-> UpperOf(s[i])]

\* ------------------------------------------------------------------------
\* Schemas (zod)
\* ------------------------------------------------------------------------
MaxSymbolLen == 5
InsertSymbolMax == 5

Issue(path, code) == [path |-> path, code |-> code]

\* z.string().min(minLen)
ZodString(path, v, minLen) ==
    IF v.kind # "string" THEN <<Issue(path, "invalid_type")>>
    ELSE IF Len(v.s) < minLen THEN <<Issue(path, "too_small")>>
    ELSE <<>>

\* z.string().min(minLen).max(maxLen): every failed check is reported
ZodStringMax(path, v, minLen, maxLen) ==
    IF v.kind # "string" THEN <<Issue(path, "invalid_type")>>
    ELSE (IF Len(v.s) < minLen THEN <<Issue(path, "too_small")>> ELSE <<>>)
         \o (IF Len(v.s) > maxLen THEN <<Issue(path, "too_big")>> ELSE <<>>)

\* z.number().min(minVal)
ZodNumber(path, v, minVal) ==
    IF v.kind # "number" THEN <<Issue(path, "invalid_type")>>
    ELSE IF v.n < minVal THEN <<Issue(path, "too_small")>>
    ELSE <<>>

\* The keys of the creation schema; z.object drops every other key of the input.
StripUnknown(body) ==
    [symbol |-> body.symbol, name |-> body.name, price |-> body.price,
     change |-> body.change, changePercent |-> body.changePercent,
     volume |-> body.volume, marketCap |-> body.marketCap]

\* Variant: the symbol's max is one more
FormSchemaLongSymbol(body) ==
    ZodStringMax("symbol", body.symbol, 1, MaxSymbolLen + 1)
    \o ZodString("name", body.name, 1)
    \o ZodString("price", body.price, 1)
    \o ZodString("change", body.change, 1)
    \o ZodString("changePercent", body.changePercent, 1)
    \o ZodNumber("volume", body.volume, 0)
    \o ZodString("marketCap", body.marketCap, 1)

\* formSchema of the dialog: the issues it reports for a value.  extend() replaces
\* the base schema's rule for each of the seven keys, so only these rules apply.
FormSchema(body) ==
    ZodStringMax("symbol", body.symbol, 1, MaxSymbolLen)
    \o ZodString("name", body.name, 1)
    \o ZodString("price", body.price, 1)
    \o ZodString("change", body.change, 1)
    \o ZodString("changePercent", body.changePercent, 1)
    \o ZodNumber("volume", body.volume, 0)
    \o ZodString("marketCap", body.marketCap, 1)

\* insertStockSchema of @shared/schema: the issues it reports for a value
NonEmptyString(path, v) ==
    IF v.kind = "string" /\ v.s # <<>> THEN <<>>
    ELSE <<Issue(path, IF v.kind = "string" THEN "too_small" ELSE "invalid_type")>>

InsertStockSchema(body) ==
    (IF body.symbol.kind # "string" THEN <<Issue("symbol", "invalid_type")>>
     ELSE IF body.symbol.s = <<>> THEN <<Issue("symbol", "too_small")>>
     ELSE IF Len(body.symbol.s) > InsertSymbolMax THEN <<Issue("symbol", "too_big")>>
     ELSE <<>>)
    \o NonEmptyString("name", body.name)
    \o NonEmptyString("price", body.price)
    \o NonEmptyString("change", body.change)
    \o NonEmptyString("changePercent", body.changePercent)
    \o (IF body.volume.kind # "number" THEN <<Issue("volume", "invalid_type")>>
        ELSE IF body.volume.n < 0 THEN <<Issue("volume", "too_small")>>
        ELSE <<>>)
    \o NonEmptyString("marketCap", body.marketCap)

\* insertStockSchema.safeParse(req.body)
SafeParse(body) ==
    LET issues == InsertStockSchema(body)
    IN  [success |-> issues = <<>>, data |-> StripUnknown(body), errors |-> issues]

\* ------------------------------------------------------------------------
\* Storage
\* ------------------------------------------------------------------------
NaN == [nan |-> TRUE, n |-> 0]

\* storage.getPortfolio(userId): <<>> is undefined
StorageGetPortfolio(userId) ==
    IF userId.nan \/ userId.n \notin DOMAIN portfolios THEN <<>> ELSE portfolios[userId.n]

\* storage.getAllStocks()
StorageGetAllStocks == stocks

\* storage.getTransactions(userId)
StorageGetTransactions(userId) ==
    IF userId.nan \/ userId.n \notin DOMAIN transactions THEN <<>> ELSE transactions[userId.n]

\* The record storage.createStock(data) makes: the data and the assigned id.
NewStock(data, id) ==
    [id |-> id, symbol |-> data.symbol, name |-> data.name, price |-> data.price,
     change |-> data.change, changePercent |-> data.changePercent,
     volume |-> data.volume, marketCap |-> data.marketCap]

\* ------------------------------------------------------------------------
\* Responses and storage calls
\* ------------------------------------------------------------------------
\* res.status(status).json({message})
JsonMessage(status, message) ==
    [status |-> status, kind |-> "message", message |-> message, errors |-> <<>>, data |-> <<>>]

\* res.status(status).json({message, errors})
JsonErrors(status, message, errors) ==
    [status |-> status, kind |-> "errors", message |-> message, errors |-> errors, data |-> <<>>]

\* res.status(status).json(record)
JsonObject(status, record) ==
    [status |-> status, kind |-> "object", message |-> "", errors |-> <<>>, data |-> <<record>>]

\* res.status(status).json(list)
JsonArray(status, list) ==
    [status |-> status, kind |-> "array", message |-> "", errors |-> <<>>, data |-> list]

Call(op, userId, data) == [op |-> op, userId |-> userId, data |-> data]

NoBody == [id |-> Undef, symbol |-> Undef, name |-> Undef, price |-> Undef, change |-> Undef,
           changePercent |-> Undef, volume |-> Undef, marketCap |-> Undef]

Request(route, param, body, throws) ==
    [route |-> route, param |-> param, body |-> body, throws |-> throws]

\* ------------------------------------------------------------------------
\* Route handlers.  A handler yields the responses it writes (sent), the storage
\* calls it makes (calls) and the records those calls persist (stored).
\* throws: the storage call of this request fails.
\* ------------------------------------------------------------------------
Outcome(s, c, st) == [sent |-> s, calls |-> c, stored |-> st]

\* Variant: the 404 branch does not return, so the handler goes on to res.json
GetPortfolioHandlerNoReturn(param, throws) ==
    LET userId == ParseInt(param)
        portfolio == StorageGetPortfolio(userId)
        call == Call("getPortfolio", userId, <<>>)
    IN  IF throws THEN Outcome(<<JsonMessage(500, "Failed to fetch portfolio")>>, <<call>>, <<>>)
        ELSE IF portfolio = <<>>
             THEN Outcome(<<JsonMessage(404, "Portfolio not found"), JsonArray(200, <<>>)>>,
                          <<call>>, <<>>)
        ELSE Outcome(<<JsonObject(200, portfolio[1])>>, <<call>>, <<>>)

\* app.get("/api/portfolio/:userId")
GetPortfolioHandler(param, throws) ==
    LET userId == ParseInt(param)
        portfolio == StorageGetPortfolio(userId)
        call == Call("getPortfolio", userId, <<>>)
    IN  IF throws THEN Outcome(<<JsonMessage(500, "Failed to fetch portfolio")>>, <<call>>, <<>>)
        ELSE IF portfolio = <<>>
             THEN Outcome(<<JsonMessage(404, "Portfolio not found")>>, <<call>>, <<>>)
        ELSE Outcome(<<JsonObject(200, portfolio[1])>>, <<call>>, <<>>)

\* The sequence s backwards
Reverse(s) == [i \in 1..Len(s) |-> s[Len(s) + 1 - i]]

\* Variant: the list is answered newest first
GetStocksHandlerNewestFirst(throws) ==
    LET call == Call("getAllStocks", NaN, <<>>)
    IN  IF throws THEN Outcome(<<JsonMessage(500, "Failed to fetch stocks")>>, <<call>>, <<>>)
        ELSE Outcome(<<JsonArray(200, Reverse(StorageGetAllStocks))>>, <<call>>, <<>>)

\* app.get("/api/stocks")
GetStocksHandler(throws) ==
    LET call == Call("getAllStocks", NaN, <<>>)
    IN  IF throws THEN Outcome(<<JsonMessage(500, "Failed to fetch stocks")>>, <<call>>, <<>>)
        ELSE Outcome(<<JsonArray(200, StorageGetAllStocks)>>, <<call>>, <<>>)

\* Variant: an empty list is answered like a missing portfolio
GetTransactionsHandlerNotFound(param, throws) ==
    LET userId == ParseInt(param)
        call == Call("getTransactions", userId, <<>>)
    IN  IF throws
        THEN Outcome(<<JsonMessage(500, "Failed to fetch transactions")>>, <<call>>, <<>>)
        ELSE IF StorageGetTransactions(userId) = <<>>
             THEN Outcome(<<JsonMessage(404, "Transactions not found")>>, <<call>>, <<>>)
        ELSE Outcome(<<JsonArray(200, StorageGetTransactions(userId))>>, <<call>>, <<>>)

\* app.get("/api/transactions/:userId")
GetTransactionsHandler(param, throws) ==
    LET userId == ParseInt(param)
        call == Call("getTransactions", userId, <<>>)
    IN  IF throws
        THEN Outcome(<<JsonMessage(500, "Failed to fetch transactions")>>, <<call>>, <<>>)
        ELSE Outcome(<<JsonArray(200, StorageGetTransactions(userId))>>, <<call>>, <<>>)

\* Variant: the created record is answered without status(201)
PostStocksHandlerNoStatus(body, throws) ==
    LET result == SafeParse(body)
        call == Call("createStock", NaN, <<result.data>>)
        stock == NewStock(result.data, currentStockId)
    IN  IF ~result.success
        THEN Outcome(<<JsonErrors(400, "Invalid stock data", result.errors)>>, <<>>, <<>>)
        ELSE IF throws
             THEN Outcome(<<JsonMessage(500, "Failed to create stock")>>, <<call>>, <<>>)
        ELSE Outcome(<<JsonObject(200, stock)>>, <<call>>, <<stock>>)

\* Variant: the result of safeParse is not looked at
PostStocksHandlerNoCheck(body, throws) ==
    LET result == SafeParse(body)
        call == Call("createStock", NaN, <<result.data>>)
        stock == NewStock(result.data, currentStockId)
    IN  IF throws
        THEN Outcome(<<JsonMessage(500, "Failed to create stock")>>, <<call>>, <<>>)
        ELSE Outcome(<<JsonObject(201, stock)>>, <<call>>, <<stock>>)

\* Variant: the record is created before the body is validated
PostStocksHandlerCreateFirst(body, throws) ==
    LET result == SafeParse(body)
        call == Call("createStock", NaN, <<result.data>>)
        stock == NewStock(result.data, currentStockId)
    IN  IF throws
        THEN Outcome(<<JsonMessage(500, "Failed to create stock")>>, <<call>>, <<>>)
        ELSE IF ~result.success
             THEN Outcome(<<JsonErrors(400, "Invalid stock data", result.errors)>>,
                          <<call>>, <<stock>>)
        ELSE Outcome(<<JsonObject(201, stock)>>, <<call>>, <<stock>>)

\* app.post("/api/stocks")
PostStocksHandler(body, throws) ==
    LET result == SafeParse(body)
        call == Call("createStock", NaN, <<result.data>>)
        stock == NewStock(result.data, currentStockId)
    IN  IF ~result.success
        THEN Outcome(<<JsonErrors(400, "Invalid stock data", result.errors)>>, <<>>, <<>>)
        ELSE IF throws
             THEN Outcome(<<JsonMessage(500, "Failed to create stock")>>, <<call>>, <<>>)
        ELSE Outcome(<<JsonObject(201, stock)>>, <<call>>, <<stock>>)

\* The records of the 201 responses among rs, in order.
RECURSIVE Answered201(_)
Answered201(rs) ==
    IF rs = <<>> THEN <<>>
    ELSE (IF Head(rs).status = 201 THEN Head(rs).data ELSE <<>>) \o Answered201(Tail(rs))

\* One request served: the handler's outcome applied to the server's state.
Serve(request, outcome) ==
    /\ req' = request
    /\ sent' = outcome.sent
    /\ calls' = outcome.calls
    /\ stocks' = stocks \o outcome.stored
    /\ currentStockId' = currentStockId + Len(outcome.stored)
    /\ created' = created \o Answered201(outcome.sent)
    /\ UNCHANGED <<portfolios, transactions>>

\* ------------------------------------------------------------------------
\* Inputs
\* ------------------------------------------------------------------------
\* Texts of the :userId segment of a path
Params == {<<"1">>, <<"2">>, <<"a">>, <<"-", "1">>, <<"1", "a">>, <<"1", "2">>, <<" ", "1">>}

GoodSymbol == <<"G", "O", "O", "G", "L">>
GoodName == <<"A", "p", "p", "l", "e">>
GoodPrice == <<"1", "7", "3">>
GoodChange == <<"4">>
GoodChangePercent == <<"2">>
GoodMarketCap == <<"$", "2", "T">>

SymbolTexts == {<<>>, <<"A">>, GoodSymbol, GoodSymbol \o <<"E">>}
VolumeValues == {0 - 1, 0, 45}


\* The text fields a body leaves empty: none, one of them, or all
EmptyFields ==
    {{}, {"name"}, {"price"}, {"change"}, {"changePercent"}, {"marketCap"},
     {"name", "price", "change", "changePercent", "marketCap"}}

TypedBody(symbol, volume, empty) ==
    [id |-> Undef,
     symbol |-> Str(symbol),
     name |-> Str(IF "name" \in empty THEN <<>> ELSE GoodName),
     price |-> Str(IF "price" \in empty THEN <<>> ELSE GoodPrice),
     change |-> Str(IF "change" \in empty THEN <<>> ELSE GoodChange),
     changePercent |-> Str(IF "changePercent" \in empty THEN <<>> ELSE GoodChangePercent),
     volume |-> Num(volume),
     marketCap |-> Str(IF "marketCap" \in empty THEN <<>> ELSE GoodMarketCap)]

TypedBodies ==
    {TypedBody(symbol, volume, empty) :
        symbol \in SymbolTexts, volume \in VolumeValues, empty \in EmptyFields}

GoodBody ==
    [id |-> Undef, symbol |-> Str(GoodSymbol), name |-> Str(GoodName), price |-> Str(GoodPrice),
     change |-> Str(GoodChange), changePercent |-> Str(GoodChangePercent),
     volume |-> Num(45), marketCap |-> Str(GoodMarketCap)]

SchemaKeys == {"symbol", "name", "price", "change", "changePercent", "volume", "marketCap"}

\* Bodies of other shapes: a key missing, a value of the wrong type, a key the
\* schema does not know.
UntypedBodies ==
    {[GoodBody EXCEPT ![k] = Undef] : k \in SchemaKeys}
    \cup {[GoodBody EXCEPT !.volume = Str(<<"4", "5">>)],
          [GoodBody EXCEPT !.name = Num(1)],
          [GoodBody EXCEPT !.symbol = Num(1)],
          [GoodBody EXCEPT !.id = Num(7)],
          [GoodBody EXCEPT !.id = Num(7), !.symbol = Str(<<>>)]}

Bodies == TypedBodies \cup UntypedBodies

\* ------------------------------------------------------------------------
\* Seeded storage
\* ------------------------------------------------------------------------
SeedStock ==
    [id |-> 1, symbol |-> Str(<<"A", "A", "P", "L">>), name |-> Str(GoodName),
     price |-> Str(GoodPrice), change |-> Str(GoodChange),
     changePercent |-> Str(GoodChangePercent), volume |-> Num(45),
     marketCap |-> Str(GoodMarketCap)]

SeedPortfolio == [id |-> 1, userId |-> 1, totalValue |-> Str(<<"1", "0", "0">>)]
SeedTransaction == [id |-> 1, userId |-> 1, symbol |-> Str(<<"A", "A", "P", "L">>)]

SeededUsers == {1, 2}

ServerInit ==
    /\ stocks = <<SeedStock>>
    /\ currentStockId = Len(stocks) + 1
    /\ portfolios = [u \in SeededUsers |-> IF u = 1 THEN <<SeedPortfolio>> ELSE <<>>]
    /\ transactions = [u \in SeededUsers |-> IF u = 1 THEN <<SeedTransaction>> ELSE <<>>]
    /\ req = Request("none", <<>>, NoBody, FALSE)
    /\ sent = <<>>
    /\ calls = <<>>
    /\ created = <<>>

\* ------------------------------------------------------------------------
\* Server actions: one per request served
\* ------------------------------------------------------------------------
GetPortfolio ==
    \E param \in Params, throws \in BOOLEAN :
        /\ Serve(Request("GET /api/portfolio/:userId", param, NoBody, throws),
                 GetPortfolioHandler(param, throws))
        /\ UNCHANGED clientVars

GetStocks ==
    \E throws \in BOOLEAN :
        /\ Serve(Request("GET /api/stocks", <<>>, NoBody, throws), GetStocksHandler(throws))
        /\ UNCHANGED clientVars

GetTransactions ==
    \E param \in Params, throws \in BOOLEAN :
        /\ Serve(Request("GET /api/transactions/:userId", param, NoBody, throws),
                 GetTransactionsHandler(param, throws))
        /\ UNCHANGED clientVars

PostStocks ==
    \E body \in Bodies, throws \in BOOLEAN :
        /\ throws => SafeParse(body).success
        /\ Len(created) < MaxStocks \/ throws \/ ~SafeParse(body).success
        /\ Serve(Request("POST /api/stocks", <<>>, body, throws), PostStocksHandler(body, throws))
        /\ UNCHANGED clientVars

\* ------------------------------------------------------------------------
\* The dialog (AddStockModal)
\* ------------------------------------------------------------------------
\* useForm defaultValues
DefaultValues ==
    [symbol |-> Str(<<>>), name |-> Str(<<>>), price |-> Str(<<>>), change |-> Str(<<>>),
     changePercent |-> Str(<<>>), volume |-> Num(0), marketCap |-> Str(<<>>)]

Mutation(status, variables) == [status |-> status, variables |-> variables]

\* createStockMutation.isPending
IsPending == mutation.status = "pending"

\* What the user can type into a field
SymbolInputs == {<<>>, <<"a">>, <<"g", "o", "o", "g", "l">>, <<"g", "o", "o", "g", "l", "e">>}
VolumeInputs == {<<>>, <<"-", "1">>, <<"0">>, <<"4", "5">>}
TextInputs(field) ==
    CASE field = "symbol" -> SymbolInputs
      [] field = "volume" -> VolumeInputs
      [] field = "name" -> {<<>>, GoodName}
      [] field = "price" -> {<<>>, GoodPrice}
      [] field = "change" -> {<<>>, GoodChange}
      [] field = "changePercent" -> {<<>>, GoodChangePercent}
      [] field = "marketCap" -> {<<>>, GoodMarketCap}

\* The value a field's onChange stores for the text of its input
FieldOnChange(field, text) ==
    CASE field = "symbol" -> Str(ToUpperCase(text))
      [] field = "volume" ->
            LET parsed == ParseInt(text)
            IN  IF parsed.nan \/ parsed.n = 0 THEN Num(0) ELSE Num(parsed.n)
      [] OTHER -> Str(text)

\* apiRequest rejects when there is no answer (status 0) or the answer is not 2xx
ApiRequestOk(status) == status >= 200 /\ status < 300
ApiStatuses == {0, 201, 400, 500}

\* The sequence s without its i-th element
RemoveAt(s, i) == [j \in 1..(Len(s) - 1) |-> IF j < i THEN s[j] ELSE s[j + 1]]

\* Variant: the submit button is never disabled
SubmitAlwaysEnabled == TRUE

\* The submit button is enabled
SubmitEnabled == ~IsPending

ClientInit ==
    /\ open = FALSE
    /\ form = DefaultValues
    /\ mutation = Mutation("idle", <<>>)
    /\ inflight = <<>>
    /\ stale = FALSE
    /\ toast = "none"
    /\ response = <<>>
    /\ isSubmitted = FALSE

\* Dialog onOpenChange={setOpen}: the trigger opens, Escape or a click outside closes
OpenChange ==
    /\ open' = ~open
    /\ UNCHANGED <<form, mutation, inflight, stale, toast, response, isSubmitted>>
    /\ UNCHANGED serverVars

\* Variant: Cancel also abandons the outstanding request
CancelAborts ==
    /\ open
    /\ open' = FALSE
    /\ inflight' = <<>>
    /\ mutation' = Mutation("idle", <<>>)
    /\ UNCHANGED <<form, stale, toast, response, isSubmitted>>
    /\ UNCHANGED serverVars

\* The Cancel button
Cancel ==
    /\ open
    /\ open' = FALSE
    /\ UNCHANGED <<form, mutation, inflight, stale, toast, response, isSubmitted>>
    /\ UNCHANGED serverVars

\* The user edits one field
TypeField ==
    \E field \in SchemaKeys :
        \E text \in TextInputs(field) :
            /\ open
            /\ form' = [form EXCEPT ![field] = FieldOnChange(field, text)]
            /\ UNCHANGED <<open, mutation, inflight, stale, toast, response, isSubmitted>>
            /\ UNCHANGED serverVars

\* Variant: handleSubmit without the resolver, onSubmit runs for any values
SubmitUnchecked ==
    /\ open
    /\ SubmitEnabled
    /\ isSubmitted' = TRUE
    /\ mutation' = Mutation("pending", <<StripUnknown(form)>>)
    /\ inflight' = Append(inflight, StripUnknown(form))
    /\ UNCHANGED <<open, form, stale, toast, response>>
    /\ UNCHANGED serverVars

\* form.handleSubmit(onSubmit), the values pass the resolver: onSubmit runs
SubmitValid ==
    /\ open
    /\ SubmitEnabled
    /\ FormSchema(form) = <<>>
    /\ isSubmitted' = TRUE
    /\ mutation' = Mutation("pending", <<StripUnknown(form)>>)
    /\ inflight' = Append(inflight, StripUnknown(form))
    /\ UNCHANGED <<open, form, stale, toast, response>>
    /\ UNCHANGED serverVars

\* form.handleSubmit(onSubmit), the resolver reports issues: onSubmit does not run
SubmitInvalid ==
    /\ open
    /\ SubmitEnabled
    /\ FormSchema(form) # <<>>
    /\ isSubmitted' = TRUE
    /\ UNCHANGED <<open, form, mutation, inflight, stale, toast, response>>
    /\ UNCHANGED serverVars

\* Variant: onSuccess without form.reset()
OnSuccessNoReset ==
    /\ stale' = TRUE
    /\ toast' = "Success"
    /\ open' = FALSE
    /\ UNCHANGED <<form, isSubmitted>>

\* createStockMutation.onSuccess
OnSuccess ==
    /\ stale' = TRUE
    /\ toast' = "Success"
    /\ form' = DefaultValues
    /\ isSubmitted' = FALSE
    /\ open' = FALSE

\* Variant: onError resets the form as onSuccess does
OnErrorReset ==
    /\ toast' = "Error"
    /\ form' = DefaultValues
    /\ isSubmitted' = FALSE
    /\ UNCHANGED <<stale, open>>

\* createStockMutation.onError
OnError ==
    /\ toast' = "Error"
    /\ UNCHANGED <<stale, form, open, isSubmitted>>

\* The i-th outstanding request is answered with status (0: no answer)
Settle(i, status) ==
    /\ inflight' = RemoveAt(inflight, i)
    /\ response' = <<status>>
    /\ mutation' = IF i = Len(inflight)
                   THEN Mutation(IF ApiRequestOk(status) THEN "success" ELSE "error",
                                 mutation.variables)
                   ELSE mutation
    /\ IF ApiRequestOk(status) THEN OnSuccess ELSE OnError
    /\ UNCHANGED serverVars

Resolve ==
    \E i \in 1..Len(inflight) :
        \E status \in ApiStatuses : Settle(i, status)

\* The stock list's query fetches again after its invalidation
Refetch ==
    /\ stale
    /\ stale' = FALSE
    /\ UNCHANGED <<open, form, mutation, inflight, toast, response, isSubmitted>>
    /\ UNCHANGED serverVars

\* ------------------------------------------------------------------------
\* Specifications
\* ------------------------------------------------------------------------
Init == ServerInit /\ ClientInit

\* The server, serving any request
Next == GetPortfolio \/ GetStocks \/ GetTransactions \/ PostStocks

Spec == Init /\ [][Next]_vars

\* The dialog, with the server as its environment
ClientNext ==
    OpenChange \/ Cancel \/ TypeField \/ SubmitValid \/ SubmitInvalid \/ Resolve \/ Refetch

ClientSpec == Init /\ [][ClientNext]_vars

\* ------------------------------------------------------------------------
\* Properties
\* ------------------------------------------------------------------------
TextKeys == {"name", "price", "change", "changePercent", "marketCap"}

\* The creation rules, field by field, as the specification states them
MeetsRule(k, v) ==
    CASE k = "symbol" -> v.kind = "string" /\ Len(v.s) >= 1 /\ Len(v.s) <= 5
      [] k = "volume" -> v.kind = "number" /\ v.n >= 0
      [] OTHER -> v.kind = "string" /\ Len(v.s) >= 1

BrokenRules(body) == {k \in SchemaKeys : ~MeetsRule(k, body[k])}
MeetsCreationRules(body) == BrokenRules(body) = {}

IsPost == req.route = "POST /api/stocks"
IsGetPortfolio == req.route = "GET /api/portfolio/:userId"
IsGetStocks == req.route = "GET /api/stocks"
IsGetTransactions == req.route = "GET /api/transactions/:userId"

SameFields(record, body) == \A k \in SchemaKeys : record[k] = body[k]

RECURSIVE IsSubsequence(_, _)
IsSubsequence(s, t) ==
    IF s = <<>> THEN TRUE
    ELSE IF t = <<>> THEN FALSE
    ELSE IF Head(s) = Head(t) THEN IsSubsequence(Tail(s), Tail(t))
    ELSE IsSubsequence(s, Tail(t))

IsPrefix(s, t) == Len(s) <= Len(t) /\ SubSeq(t, 1, Len(s)) = s

\* C1: a POST whose body meets every creation rule calls createStock exactly once,
\* with the validated record; when that call returns, the one response is 201 with
\* the created record, which is the record stored last and whose seven fields equal
\* the submitted ones (when the call throws the one response is 500).
C1_ValidCreateAnswers201 ==
    (IsPost /\ MeetsCreationRules(req.body)) =>
        /\ Len(calls) = 1
        /\ calls[1].op = "createStock"
        /\ calls[1].data = <<StripUnknown(req.body)>>
        /\ Len(sent) = 1
        /\ IF req.throws THEN sent[1].status = 500
           ELSE /\ sent[1].status = 201
                /\ sent[1].kind = "object"
                /\ SameFields(sent[1].data[1], req.body)
                /\ sent[1].data[1] = stocks[Len(stocks)]

C1_Witness ==
    /\ IsPost
    /\ req.body.symbol = Str(GoodSymbol)
    /\ req.body.id = Num(7)
    /\ MeetsCreationRules(req.body)
    /\ ~req.throws
    /\ sent[1].status = 201
    /\ sent[1].data[1].id = 3
    /\ Len(created) = 2

\* C2: a POST whose body breaks exactly one creation rule is answered once, with 400
\* and a body {message, errors} one of whose errors names the field of the broken
\* rule; it is not answered 201 and nothing is created.
C2_SingleViolationAnswers400 ==
    (IsPost /\ Cardinality(BrokenRules(req.body)) = 1) =>
        /\ Len(sent) = 1
        /\ sent[1].status = 400
        /\ sent[1].kind = "errors"
        /\ sent[1].message # ""
        /\ \E i \in 1..Len(sent[1].errors) : sent[1].errors[i].path \in BrokenRules(req.body)
        /\ calls = <<>>

C2_Witness ==
    /\ IsPost
    /\ BrokenRules(req.body) = {"symbol"}
    /\ req.body.symbol.kind = "string"
    /\ Len(req.body.symbol.s) = 6
    /\ sent[1].status = 400
    /\ sent[1].errors = <<Issue("symbol", "too_big")>>

\* C3: the dialog's schema and the server's validation accept the same bodies: a POST
\* is answered 400 exactly when formSchema reports an issue for its body.
C3_ClientAndServerAgree ==
    IsPost => ((FormSchema(req.body) = <<>>) <=> (sent[1].status # 400))

C3_Witness ==
    /\ IsPost
    /\ req.body.symbol = Str(GoodSymbol \o <<"E">>)
    /\ FormSchema(req.body) # <<>>
    /\ sent[1].status = 400

\* C4: a GET /api/stocks answered 200 lists every record answered 201 so far, in the
\* order of creation, and the stored list only ever grows at its end, so a record
\* listed once is listed by every later 200 answer.
C4_ListedInCreationOrder ==
    /\ [](IsGetStocks /\ sent[1].status = 200 =>
            /\ IsSubsequence(created, sent[1].data)
            /\ sent[1].data = stocks)
    /\ [][IsPrefix(stocks, stocks')]_vars

C4_Witness ==
    /\ IsGetStocks
    /\ sent[1].status = 200
    /\ Len(created) = 2
    /\ created[1] # created[2]
    /\ Len(sent[1].data) = 3

\* C5: the stored stocks, portfolios and transactions change only in a step that
\* serves a POST whose body meets the creation rules and that calls createStock;
\* every GET and every POST answered 400 leaves them as they were.
StoreVars == <<stocks, currentStockId, portfolios, transactions>>

C5_OnlyCreateMutates ==
    [][/\ StoreVars' # StoreVars =>
            /\ req'.route = "POST /api/stocks"
            /\ MeetsCreationRules(req'.body)
            /\ Len(calls') = 1
            /\ calls'[1].op = "createStock"
       /\ req'.route # "POST /api/stocks" => StoreVars' = StoreVars
       /\ (req'.route = "POST /api/stocks" /\ sent'[1].status = 400) => StoreVars' = StoreVars
      ]_vars

C5_Witness ==
    /\ IsPost
    /\ sent[1].status = 400
    /\ req.body.id = Num(7)
    /\ Len(stocks) = 2

\* C6: a GET of a portfolio is answered exactly once: 500 when (and only when) the
\* storage call throws, else 404 with a {message} body when storage holds no
\* portfolio for the parsed user id, else 200 with that portfolio.
HeldPortfolio(param) ==
    LET userId == ParseInt(param)
    IN  IF ~userId.nan /\ userId.n \in DOMAIN portfolios THEN portfolios[userId.n] ELSE <<>>

C6_PortfolioStatus ==
    IsGetPortfolio =>
        /\ Len(sent) = 1
        /\ (sent[1].status = 500) <=> req.throws
        /\ (~req.throws /\ HeldPortfolio(req.param) = <<>>) =>
                /\ sent[1].status = 404
                /\ sent[1].kind = "message"
                /\ sent[1].message # ""
        /\ (~req.throws /\ HeldPortfolio(req.param) # <<>>) =>
                /\ sent[1].status = 200
                /\ sent[1].data = HeldPortfolio(req.param)
        /\ sent[1].status \in {200, 404, 500}

C6_Witness ==
    /\ IsGetPortfolio
    /\ req.param = <<"2">>
    /\ ~req.throws
    /\ sent[1].status = 404

\* C7: a GET of a user's transactions is never answered 404: it is answered once,
\* 500 when the storage call throws and else 200 with exactly the sequence storage
\* holds for the parsed user id, the empty sequence for a user without transactions.
HeldTransactions(param) ==
    LET userId == ParseInt(param)
    IN  IF ~userId.nan /\ userId.n \in DOMAIN transactions THEN transactions[userId.n] ELSE <<>>

C7_TransactionsNever404 ==
    IsGetTransactions =>
        /\ Len(sent) = 1
        /\ sent[1].status # 404
        /\ (sent[1].status = 500) <=> req.throws
        /\ ~req.throws =>
                /\ sent[1].status = 200
                /\ sent[1].kind = "array"
                /\ sent[1].data = HeldTransactions(req.param)

C7_Witness ==
    /\ IsGetTransactions
    /\ req.param = <<"2">>
    /\ ~req.throws
    /\ sent[1].status = 200
    /\ sent[1].data = <<>>

\* A step in which an outstanding request is answered, and how
Settled == Len(inflight') < Len(inflight)
SettledOk == Settled /\ response' # <<>> /\ ApiRequestOk(response'[1])
SettledFailed == Settled /\ response' # <<>> /\ ~ApiRequestOk(response'[1])
Started == Len(inflight') > Len(inflight)

\* C8: the step in which an outstanding request is answered 2xx invalidates the
\* cached stock list, shows the success notification, leaves every field at its
\* default (strings empty, volume 0) and closes the dialog; the cache is invalidated
\* and the success notification appears in no other step, and a step that starts a
\* request or in which a request fails neither resets a field nor closes the dialog.
C8_SuccessEffects ==
    [][/\ SettledOk =>
            /\ stale'
            /\ toast' = "Success"
            /\ \A k \in TextKeys \cup {"symbol"} : form'[k] = Str(<<>>)
            /\ form'.volume = Num(0)
            /\ ~open'
       /\ (stale' /\ ~stale) => SettledOk
       /\ (toast' = "Success" /\ toast # "Success") => SettledOk
       /\ (Started \/ SettledFailed) => (form' = form /\ open' = open /\ stale' = stale)
      ]_vars

C8_Witness ==
    /\ response = <<201>>
    /\ mutation.status = "success"
    /\ mutation.variables # <<>>
    /\ mutation.variables[1].symbol = Str(GoodSymbol)
    /\ form = DefaultValues
    /\ stale
    /\ toast = "Success"
    /\ ~open

\* C9 as stated: the step in which an outstanding request fails shows the error
\* notification, leaves the fields, the dialog and the cached list as they were, and
\* leaves the form holding exactly the values that were submitted.
C9_FormHoldsSubmitted ==
    [][SettledFailed =>
            /\ toast' = "Error"
            /\ form' = form /\ open' = open /\ stale' = stale
            /\ StripUnknown(form') = Head(inflight)
      ]_vars

\* C9 amended: the step in which an outstanding request fails (no answer, or an
\* answer that is not 2xx) shows the error notification and leaves the fields, the
\* dialog and the cached list as they were; the form then holds the submitted values
\* whenever it held them just before, that is unless a field was edited while the
\* request was outstanding.
C9_FailureKeepsForm ==
    [][SettledFailed =>
            /\ toast' = "Error"
            /\ form' = form /\ open' = open /\ stale' = stale
            /\ StripUnknown(form) = Head(inflight) => StripUnknown(form') = Head(inflight)
      ]_vars

C9_Witness ==
    /\ response = <<400>>
    /\ mutation.status = "error"
    /\ mutation.variables = <<StripUnknown(form)>>
    /\ toast = "Error"
    /\ open
    /\ ~stale

\* C10: at most one create request is outstanding at any time, and while one is
\* outstanding the mutation is pending and the submit button is disabled, whatever
\* the user cancels, reopens or types in between.
C10_SingleInFlight ==
    /\ Len(inflight) <= 1
    /\ Len(inflight) = 1 => (IsPending /\ ~SubmitEnabled)

C10_Witness ==
    /\ Len(inflight) = 1
    /\ open
    /\ FormSchema(form) = <<>>
    /\ StripUnknown(form) # inflight[1]
    /\ response # <<>>

\* C11: a request is started only for values that pass formSchema: every
\* outstanding request and the mutation's variables pass it, no step taken from a
\* form that breaks a rule starts a request or makes the mutation pending, and the
\* submit of such a form changes nothing but formState.isSubmitted.
C11_InvalidFormSendsNothing ==
    /\ [](/\ \A i \in 1..Len(inflight) : FormSchema(inflight[i]) = <<>>
          /\ \A i \in 1..Len(mutation.variables) : FormSchema(mutation.variables[i]) = <<>>)
    /\ [][FormSchema(form) # <<>> =>
            /\ ~Started
            /\ mutation'.status = "pending" => mutation.status = "pending"
            /\ (isSubmitted' /\ ~isSubmitted) =>
                    UNCHANGED <<open, form, mutation, inflight, stale, toast, response>>
         ]_vars

C11_Witness ==
    /\ isSubmitted
    /\ open
    /\ BrokenRules(form) = {"volume"}
    /\ mutation.status = "idle"
    /\ inflight = <<>>
    /\ response = <<>>

\* C12: closing the dialog while a request is outstanding leaves that request
\* outstanding and the fields as they are; when the request is then answered 2xx the
\* cached list is invalidated, every field is back at its default and the dialog is
\* closed, whatever the fields held and whether or not the dialog was open again.
\* A step that closes the dialog, other than the success of the request
ClosedWhilePending == open /\ ~open' /\ inflight # <<>> /\ mutation'.status # "success"

C12_CancelKeepsRequest ==
    [][/\ ClosedWhilePending =>
            /\ inflight' = inflight
            /\ mutation' = mutation
            /\ form' = form
            /\ stale' = stale
       /\ (SettledOk /\ StripUnknown(form) # Head(inflight)) =>
            /\ stale'
            /\ form' = DefaultValues
            /\ ~open'
       /\ (SettledOk /\ ~open) => (stale' /\ form' = DefaultValues)
      ]_vars

C12_Witness ==
    /\ ~open
    /\ Len(inflight) = 1
    /\ IsPending
    /\ StripUnknown(form) # inflight[1]
    /\ form # DefaultValues
    /\ response = <<>>

====
